---- MODULE Spec2Model ----
(***************************************************************************)
(* The Sequelize record service of src/src/index.js: find / get / create / *)
(* patch / update / remove over a table held by the storage engine.  Every *)
(* public method is a chain of engine round-trips; each round-trip is one  *)
(* step of the model and may fail.                                         *)
(***************************************************************************)
EXTENDS Integers, Sequences, FiniteSets, TLC

\* ------------------------------------------------------------------ bounds
MaxId == 3
MaxCalls == 2
\* The page sizes of a service constructed with pagination.
PageDefault == 1
PageMax == 2

Ids == 1..MaxId
Callers == {"c1", "c2"}

\* ------------------------------------------------------------ basic values
\* `id === null`: the identifier argument of a bulk patch / remove.
NoId == 0
\* this.id = options.id || 'id'
idField == "id"
Fields == {"id", "status", "tag"}
\* SQL NULL in a non-identifier column.
Null == "null"

\* An optional value (JavaScript undefined): <<>> or <<v>>.
None == <<>>
Some(v) == <<v>>
IsSome(o) == Len(o) > 0
Get(o) == o[1]

Min(a, b) == IF a <= b THEN a ELSE b

\* Object.assign({}, a, b): b's keys win.
Assign(a, b) ==
  [k \in (DOMAIN a) \cup (DOMAIN b) |-> IF k \in DOMAIN b THEN b[k] ELSE a[k]]

\* lodash.omit(obj, key)
omit(obj, key) == [k \in (DOMAIN obj) \ {key} |-> obj[k]]

\* lodash pick, as feathers-commons' select uses it.
pick(obj, keys) == [k \in (DOMAIN obj) \cap keys |-> obj[k]]

\* No passthrough options (params.sequelize undefined).
NoOptions == [k \in {} |-> TRUE]

\* The ascending sequence of a finite set of integers.
RECURSIVE SeqOf(_)
SeqOf(S) ==
  IF S = {} THEN <<>>
  ELSE LET m == CHOOSE x \in S : \A y \in S : x <= y
       IN <<m>> \o SeqOf(S \ {m})

Range(s) == {s[i] : i \in DOMAIN s}

\* ------------------------------------------------------- the query filter
\* A raw query object: equality predicates on fields (preds), an in-set
\* predicate on the identifier (idIn, as built by patch's re-fetch), and the
\* reserved $limit / $skip / $select directives.
Query(preds, idIn, limit, skip, sel) ==
  [preds |-> preds, idIn |-> idIn, limit |-> limit, skip |-> skip, select |-> sel]

EmptyQuery == Query(NoOptions, None, None, None, None)

\* A getLimit that does not cap the requested limit.
getLimitUncapped(limit, paginate) ==
  IF IsSome(paginate) /\ IsSome(Get(paginate).default)
  THEN IF IsSome(limit) THEN limit ELSE Get(paginate).default
  ELSE limit

\* feathers-query-filters' getLimit: with a default page size the requested
\* limit (or the default) is capped by max; without one it passes unchanged.
getLimit(limit, paginate) ==
  IF IsSome(paginate) /\ IsSome(Get(paginate).default)
  THEN LET lower == IF IsSome(limit) THEN Get(limit) ELSE Get(Get(paginate).default)
       IN IF IsSome(Get(paginate).max)
          THEN Some(Min(lower, Get(Get(paginate).max)))
          ELSE Some(lower)
  ELSE limit

\* feathers-query-filters' filter(query, paginate): the reserved directives
\* go to `filters`, the predicates stay in `query`.
filter(query, paginate) ==
  [filters |-> [limit  |-> getLimit(query.limit, paginate),
                skip   |-> query.skip,
                select |-> query.select],
   query   |-> [preds |-> query.preds, idIn |-> query.idIn]]

\* utils.getWhere: the engine's where clause of the predicates.  Equality and
\* $in translate to themselves.
getWhere(query) == [preds |-> query.preds, idIn |-> query.idIn]

\* ------------------------------------------------------ the storage engine
\* The table: a function from row key (the auto-increment value the row was
\* created with) to the row.  A row r satisfies a where clause when it
\* equals every field predicate and, under an in-set predicate, its
\* identifier is in the set (an empty set matches nothing).
Matches(r, where) ==
  /\ \A k \in DOMAIN where.preds : r[k] = where.preds[k]
  /\ IsSome(where.idIn) => r[idField] \in Get(where.idIn)

Matching(st, where) == {k \in DOMAIN st : Matches(st[k], where)}

\* OFFSET / LIMIT over a sequence of rows.
Window(rows, offset, limit) ==
  LET from == IF IsSome(offset) THEN Get(offset) ELSE 0
      upto == IF IsSome(limit) THEN Min(Len(rows), from + Get(limit)) ELSE Len(rows)
  IN IF from >= Len(rows) THEN <<>> ELSE SubSeq(rows, from + 1, upto)

\* Model.findAndCount(q): count ignores limit and offset; rows come in key
\* order, windowed, restricted to q.attributes when given.
findAndCount(st, q) ==
  LET keys == Matching(st, q.where)
      all  == [i \in 1..Cardinality(keys) |-> st[SeqOf(keys)[i]]]
      win  == Window(all, q.offset, q.limit)
  IN [count |-> Cardinality(keys),
      rows  |-> IF "attributes" \in DOMAIN q
                THEN [i \in 1..Len(win) |-> pick(win[i], q.attributes)]
                ELSE win]

\* Model.findById(id): the row with that identifier, or null.
findById(st, id) ==
  LET keys == {k \in DOMAIN st : st[k][idField] = id}
  IN IF keys = {} THEN None ELSE Some(st[CHOOSE k \in keys : TRUE])

\* Model.update(values, {where}): UPDATE ... SET values WHERE where.
ModelUpdate(st, values, where) ==
  [k \in DOMAIN st |-> IF Matches(st[k], where) THEN Assign(st[k], values) ELSE st[k]]

\* Model.destroy({where}): DELETE ... WHERE where.
ModelDestroy(st, where) ==
  [k \in (DOMAIN st) \ Matching(st, where) |-> st[k]]

\* instance.update(values): Sequelize's set() skips a primary key that is
\* already defined, then saves the instance's row.
InstanceUpdate(st, instance, values) ==
  [k \in DOMAIN st |->
     IF st[k][idField] = instance[idField]
     THEN Assign(st[k], omit(values, idField))
     ELSE st[k]]

\* Model.create(data): INSERT with the next auto-increment identifier.
ModelCreate(st, data, nid) ==
  [k \in (DOMAIN st) \cup {nid} |->
     IF k = nid
     THEN Assign([id |-> nid, status |-> Null, tag |-> Null], omit(data, idField))
     ELSE st[k]]

\* ------------------------------------------------------------ the service
\* A select that keeps the listed fields only.
selectListed(params, rows) ==
  IF IsSome(params.query.select)
  THEN [i \in 1..Len(rows) |-> pick(rows[i], Get(params.query.select))]
  ELSE rows

\* feathers-commons' select(params, idField): with a $select list, each
\* result keeps the listed fields plus the identifier; otherwise unchanged.
select(params, rows) ==
  IF IsSome(params.query.select)
  THEN [i \in 1..Len(rows) |-> pick(rows[i], Get(params.query.select) \cup {idField})]
  ELSE rows

\* What the engine throws when a round-trip fails.
EngineError == "EngineError"
\* new errors.NotFound(`No record found for id '${id}'`)
NotFound == "NotFound"
\* update's rejection of an array: the bare message string.
InvalidOperation == "Not replacing multiple records"

\* utils.errorHandler: an engine failure becomes the generic storage error;
\* an error that is already one of the service's own is rethrown as it is.
errorHandler(error) ==
  IF error = EngineError THEN "StorageError" ELSE error

\* The engine query _find builds: the computed where / limit / offset, then
\* the passthrough options on top, then the $select list as attributes.
FindQuery(params, paginate) ==
  LET f == filter(params.query, paginate)
      q == Assign([where  |-> getWhere(f.query),
                   limit  |-> f.filters.limit,
                   offset |-> f.filters.skip],
                  params.sequelize)
  IN IF IsSome(f.filters.select)
     THEN Assign(q, [attributes |-> Get(f.filters.select)])
     ELSE q

\* The page _find resolves with.
_find(st, params, paginate) ==
  LET f      == filter(params.query, paginate)
      result == findAndCount(st, FindQuery(params, paginate))
  IN [total |-> result.count,
      limit |-> f.filters.limit,
      skip  |-> IF IsSome(f.filters.skip) THEN Get(f.filters.skip) ELSE 0,
      data  |-> result.rows]

\* What a step of a promise chain hands on: an error thrown, or data.
Thrown(error) == [error |-> error, data |-> <<>>]
Value(data) == [error |-> "", data |-> data]

\* A _get that lets a null instance through.
_getSilent(st, id, params) ==
  LET instance == findById(st, id)
  IN Value(IF IsSome(instance) THEN select(params, instance) ELSE <<>>)

\* _get's then-handlers: NotFound for a null instance, else the instance
\* projected.
_get(st, id, params) ==
  LET instance == findById(st, id)
  IN IF ~IsSome(instance) THEN Thrown(NotFound)
     ELSE Value(select(params, instance))

\* _getOrFind: the unpaginated data of a _find when id is null, _get
\* otherwise.
_getOrFind(st, id, params) ==
  IF id = NoId THEN Value(_find(st, params, None).data)
  ELSE _get(st, id, params)

\* A fetch that makes up an empty record for a missing one.
UpdateInstanceUpsert(st, id) ==
  LET instance == findById(st, id)
  IN Value(IF IsSome(instance) THEN instance
           ELSE Some([id |-> id, status |-> Null, tag |-> Null]))

\* update's fetch: NotFound for a null instance, else the instance.
UpdateInstance(st, id) ==
  LET instance == findById(st, id)
  IN IF ~IsSome(instance) THEN Thrown(NotFound) ELSE Value(instance)

\* patch's mapIds: the identifiers of a page's rows.
mapIds(page) == [i \in 1..Len(page.data) |-> page.data[i][idField]]

\* A mutation where clause without the identifier constraint.
MutationWhereAll(id, params) == filter(params.query, None).query

\* The where clause patch and remove send with the mutation: the caller's
\* predicates, constrained to the identifier when one is given.
MutationWhere(id, params) ==
  LET where == filter(params.query, None).query
  IN IF id # NoId THEN [where EXCEPT !.idIn = Some({id})] ELSE where

\* options = Object.assign({}, params.sequelize, { where })
MutationOptions(id, params) ==
  Assign(params.sequelize, [where |-> MutationWhere(id, params)])

\* The values patch sends: data without the identifier field.
PatchValues(data) == omit(data, idField)

\* A re-fetch that applies the caller's filter again.
FindParamsByFilter(params, idList) == params

\* A findParams that leaves the in-set predicate out when the list is empty.
FindParamsUnfiltered(params, idList) ==
  Assign(params,
         [query |-> Query(NoOptions,
                          IF idList = <<>> THEN None ELSE Some(Range(idList)),
                          None, None, None)])

\* patch's findParams: params with the query replaced by an in-set predicate
\* over the resolved identifiers.
FindParams(params, idList) ==
  Assign(params, [query |-> Query(NoOptions, Some(Range(idList)), None, None, None)])

\* A copy that keeps the instance's value for a key data does not have.
UpdateCopyKeeps(instance, data) ==
  [key \in DOMAIN instance |->
     IF key \in DOMAIN data THEN data[key] ELSE instance[key]]

\* update's copy: every key of the fetched instance, with data's value when
\* data has the key and null otherwise.
UpdateCopy(instance, data) ==
  [key \in DOMAIN instance |->
     IF key \in DOMAIN data THEN data[key]
     ELSE IF key = idField THEN NoId ELSE Null]

\* A test that takes every payload for an object.
isArrayNever(data) == FALSE

\* Array.isArray(data)
isArray(data) == data.array

\* --------------------------------------------------------------- the state
VARIABLES
  store,     \* the table
  nextId,    \* the engine's auto-increment counter
  paginate,  \* this.paginate
  calls,     \* per caller: the method call in flight or last settled
  ncalls     \* calls made so far

vars == <<store, nextId, paginate, calls, ncalls>>

NoParams == [query |-> EmptyQuery, sequelize |-> NoOptions]
NoData == [array |-> FALSE, value |-> NoOptions]

\* A caller that has not called yet.
IdleCall ==
  [op |-> "none", id |-> NoId, data |-> NoData, params |-> NoParams,
   pc |-> "idle",
   idList   |-> <<>>,      \* patch: the identifiers resolved first
   found    |-> <<>>,      \* update: the fetched instance; remove: the resolved data
   settled  |-> "pending", \* pending | resolved | rejected
   error    |-> "",        \* what the call rejected with
   result   |-> <<>>,      \* what the call resolved with: the record(s)
   page     |-> <<>>,      \* find: total, limit and skip when it resolved with a Page
   \* history of the call, for the properties
   trips    |-> <<>>,      \* the engine round-trips issued, in order, and how each ended
   sent     |-> <<>>,      \* the options of each engine call that takes a where clause
   raised   |-> "",        \* the error as first thrown
   handled  |-> 0,         \* passes through utils.errorHandler
   before   |-> NoOptions, \* the table when the call was made
   values   |-> <<>>,      \* the values sent with each write
   affected |-> {}]        \* the rows the write matched

NewCall(op, id, data, params, pc) ==
  [IdleCall EXCEPT !.op = op, !.id = id, !.data = data, !.params = params,
                   !.pc = pc, !.before = store]

CanCall(c) ==
  /\ calls[c].pc \in {"idle", "done"}
  /\ ncalls < MaxCalls

\* One more engine round-trip issued by the call.
Trip(call, name, ok) == [call EXCEPT !.trips = Append(@, [name |-> name, ok |-> ok])]

\* The options object handed to an engine call that takes a where clause.
Sent(call, kind, q) == [call EXCEPT !.sent = Append(@, [kind |-> kind, q |-> q])]

\* An error thrown in the chain.
Throw(call, error) == [call EXCEPT !.raised = error, !.error = error]

\* One .catch(utils.errorHandler) on the way out.
Catch(call) ==
  [call EXCEPT !.error = errorHandler(@), !.handled = @ + 1]

\* The promise settles.
Rejected(call) == [call EXCEPT !.pc = "done", !.settled = "rejected"]
Resolved(call, rows) ==
  [call EXCEPT !.pc = "done", !.settled = "resolved", !.result = rows]

\* ------------------------------------------------------------ input sets
PredSet == {NoOptions, [status |-> "x"], [status |-> "y"]}
WindowSet == {<<None, None>>, <<Some(1), None>>, <<Some(1), Some(1)>>}
SelectSet == {None, Some({"status"})}
ObjectSet == {[status |-> "x"], [id |-> 1, status |-> "y"]}

\* params.sequelize: nothing, a where clause of the caller's own, another
\* option.
SequelizeSet ==
  {NoOptions, [where |-> [preds |-> [status |-> "y"], idIn |-> None]], [raw |-> TRUE]}

\* $limit / $skip of a find on a paginated service: none, within the page
\* sizes, above the maximum.
PagedWindowSet ==
  {<<None, None>>, <<Some(1), None>>, <<Some(PageMax + 1), None>>, <<Some(1), Some(1)>>}

\* params.paginate: absent, false, a configuration of the call's own.
PaginateSet ==
  {NoOptions, [paginate |-> None],
   [paginate |-> Some([default |-> Some(PageMax), max |-> Some(PageMax)])]}

Object(v) == [array |-> FALSE, value |-> v]
Array(s) == [array |-> TRUE, value |-> s]

Init ==
  /\ store \in [1..(MaxId - 1) -> [id : Ids, status : {"x", "y"}, tag : {"t"}]]
  /\ \A k \in DOMAIN store : store[k].id = k
  /\ nextId = MaxId
  /\ paginate = None
  /\ calls = [c \in Callers |-> IdleCall]
  /\ ncalls = 0

\* ------------------------------------------------------------------ find
\* find(params): the synchronous part, with $limit / $skip drawn from
\* `windows`, params.paginate from `overrides` (NoOptions: params has none)
\* and params.sequelize from `options`.
FindCall(c, windows, overrides, options) ==
  /\ CanCall(c)
  /\ \E preds \in PredSet, w \in windows, over \in overrides, seq \in options :
       calls' = [calls EXCEPT ![c] =
         NewCall("find", NoId, NoData,
                 Assign([query |-> Query(preds, None, w[1], w[2], None),
                         sequelize |-> seq], over),
                 "find")]
  /\ ncalls' = ncalls + 1
  /\ UNCHANGED <<store, nextId, paginate>>

\* find called without params.paginate.
CallFind(c, options) == FindCall(c, WindowSet, {NoOptions}, options)

\* A find that takes the construction-time configuration whatever the call
\* supplies.
EffectivePaginateFixed(params, config) == config

\* const paginate = typeof params.paginate !== 'undefined' ? params.paginate
\* : this.paginate
EffectivePaginate(params, config) ==
  IF "paginate" \in DOMAIN params THEN params.paginate ELSE config

\* find's findAndCount round-trip (_find): the page when the pagination
\* configuration in effect has a default page size, the bare data otherwise.
FindStep(c) ==
  /\ calls[c].pc = "find"
  /\ \E ok \in BOOLEAN :
       LET effective == EffectivePaginate(calls[c].params, paginate)
           call == Trip(Sent(calls[c], "find", FindQuery(calls[c].params, effective)),
                        "findAndCount", ok)
           page == _find(store, call.params, effective)
       IN calls' = [calls EXCEPT ![c] =
            IF ~ok THEN Rejected(Catch(Throw(call, EngineError)))
            ELSE IF IsSome(effective) /\ IsSome(Get(effective).default)
            THEN [Resolved(call, page.data) EXCEPT
                    !.page = Some([total |-> page.total, limit |-> page.limit,
                                   skip |-> page.skip])]
            ELSE Resolved(call, page.data)]
  /\ UNCHANGED <<store, nextId, paginate, ncalls>>

\* ------------------------------------------------------------------- get
CallGet(c) ==
  /\ CanCall(c)
  /\ \E id \in Ids, sel \in SelectSet :
       calls' = [calls EXCEPT ![c] =
         NewCall("get", id, NoData,
                 [query |-> Query(NoOptions, None, None, None, sel),
                  sequelize |-> NoOptions],
                 "get")]
  /\ ncalls' = ncalls + 1
  /\ UNCHANGED <<store, nextId, paginate>>

\* get's findById round-trip (_get), projected in _get and again in get.
GetStep(c) ==
  /\ calls[c].pc = "get"
  /\ \E ok \in BOOLEAN :
       LET call == Trip(calls[c], "findById", ok)
           out  == _get(store, call.id, call.params)
       IN calls' = [calls EXCEPT ![c] =
            IF ~ok THEN Rejected(Catch(Throw(call, EngineError)))
            ELSE IF out.error # "" THEN Rejected(Catch(Throw(call, out.error)))
            ELSE Resolved(call, select(call.params, out.data))]
  /\ UNCHANGED <<store, nextId, paginate, ncalls>>

\* ---------------------------------------------------------------- create
CallCreate(c) ==
  /\ CanCall(c)
  /\ \E data \in {Object([status |-> "y"]), Array(<<[status |-> "x"]>>)} :
       calls' = [calls EXCEPT ![c] = NewCall("create", NoId, data, NoParams, "create")]
  /\ ncalls' = ncalls + 1
  /\ UNCHANGED <<store, nextId, paginate>>

\* Model.bulkCreate(rows): one insert per row, identifiers from nid on.
RECURSIVE BulkCreate(_, _, _)
BulkCreate(st, rows, nid) ==
  IF rows = <<>> THEN st
  ELSE BulkCreate(ModelCreate(st, Head(rows), nid), Tail(rows), nid + 1)

\* create's round-trip: bulkCreate for an array (no projection), create
\* for one record.
CreateStep(c) ==
  /\ calls[c].pc = "create"
  /\ LET bulk == isArray(calls[c].data)
         n    == IF bulk THEN Len(calls[c].data.value) ELSE 1
     IN /\ nextId + n - 1 <= MaxId
        /\ \E ok \in BOOLEAN :
             LET call == Trip(calls[c], IF bulk THEN "bulkCreate" ELSE "create", ok)
             IN IF ~ok
                THEN /\ calls' = [calls EXCEPT ![c] =
                          Rejected(Catch(Throw(call, EngineError)))]
                     /\ UNCHANGED <<store, nextId>>
                ELSE /\ store' = IF bulk THEN BulkCreate(store, call.data.value, nextId)
                                 ELSE ModelCreate(store, call.data.value, nextId)
                     /\ nextId' = nextId + n
                     /\ calls' = [calls EXCEPT ![c] =
                          Resolved(call,
                            IF bulk THEN [i \in 1..n |-> store'[nextId + i - 1]]
                            ELSE select(call.params, <<store'[nextId]>>))]
  /\ UNCHANGED <<paginate, ncalls>>

\* ----------------------------------------------------------------- patch
\* patch(id, data, params): the synchronous part.  With an id the identifier
\* list is [id] at once; without, it is resolved by a _find first.
PatchCall(c, ids, windows, options) ==
  /\ CanCall(c)
  /\ \E id \in ids, obj \in ObjectSet, preds \in PredSet,
        w \in windows, seq \in options :
       calls' = [calls EXCEPT ![c] =
         [NewCall("patch", id, Object(obj),
                  [query |-> Query(preds, None, w[1], w[2], None), sequelize |-> seq],
                  IF id = NoId THEN "resolve" ELSE "update")
          EXCEPT !.idList = IF id = NoId THEN <<>> ELSE <<id>>]]
  /\ ncalls' = ncalls + 1
  /\ UNCHANGED <<store, nextId, paginate>>

CallPatch(c, options) == PatchCall(c, Ids \cup {NoId}, WindowSet, options)

\* An id resolution that runs under the service's pagination.
PatchResolvePaged(c) ==
  /\ calls[c].op = "patch"
  /\ calls[c].pc = "resolve"
  /\ \E ok \in BOOLEAN :
       LET call == Trip(Sent(calls[c], "resolve", FindQuery(calls[c].params, paginate)),
                        "findAndCount", ok)
       IN calls' = [calls EXCEPT ![c] =
            IF ok
            THEN [call EXCEPT !.pc = "update",
                              !.idList = mapIds(_find(store, call.params, paginate))]
            ELSE Rejected(Catch(Catch(Throw(call, EngineError))))]
  /\ UNCHANGED <<store, nextId, paginate, ncalls>>

\* ids = this._find(params).then(mapIds); a failure passes _find's catch
\* and then patch's.
PatchResolve(c) ==
  /\ calls[c].op = "patch"
  /\ calls[c].pc = "resolve"
  /\ \E ok \in BOOLEAN :
       LET call == Trip(Sent(calls[c], "resolve", FindQuery(calls[c].params, None)),
                        "findAndCount", ok)
       IN calls' = [calls EXCEPT ![c] =
            IF ok
            THEN [call EXCEPT !.pc = "update",
                              !.idList = mapIds(_find(store, call.params, None))]
            ELSE Rejected(Catch(Catch(Throw(call, EngineError))))]
  /\ UNCHANGED <<store, nextId, paginate, ncalls>>

\* An update whose failure is swallowed: the chain goes on to the re-fetch.
PatchUpdateSwallows(c) ==
  /\ calls[c].op = "patch"
  /\ calls[c].pc = "update"
  /\ \E ok \in BOOLEAN :
       LET call   == Trip(Sent(calls[c], "update",
                               MutationOptions(calls[c].id, calls[c].params)),
                          "update", ok)
           where  == MutationOptions(call.id, call.params).where
           values == PatchValues(call.data.value)
       IN /\ store' = IF ok THEN ModelUpdate(store, values, where) ELSE store
          /\ calls' = [calls EXCEPT ![c] = [call EXCEPT !.pc = "refetch"]]
  /\ UNCHANGED <<nextId, paginate, ncalls>>

\* this.Model.update(omit(data, this.id), options)
PatchUpdate(c) ==
  /\ calls[c].op = "patch"
  /\ calls[c].pc = "update"
  /\ \E ok \in BOOLEAN :
       LET call   == Trip(Sent(calls[c], "update",
                               MutationOptions(calls[c].id, calls[c].params)),
                          "update", ok)
           where  == MutationOptions(call.id, call.params).where
           values == PatchValues(call.data.value)
       IN IF ok
          THEN /\ store' = ModelUpdate(store, values, where)
               /\ calls' = [calls EXCEPT ![c] =
                    [call EXCEPT !.pc = "refetch",
                                 !.values = Append(@, values),
                                 !.affected = Matching(store, where)]]
          ELSE /\ calls' = [calls EXCEPT ![c] =
                    Rejected(Catch(Throw(call, EngineError)))]
               /\ UNCHANGED store
  /\ UNCHANGED <<nextId, paginate, ncalls>>

\* .then(() => this._getOrFind(id, findParams)).then(select(params, this.id));
\* a failure passes the catch of _find or _get and then patch's.
PatchRefetch(c) ==
  /\ calls[c].op = "patch"
  /\ calls[c].pc = "refetch"
  /\ \E ok \in BOOLEAN :
       LET findParams == FindParams(calls[c].params, calls[c].idList)
           call == IF calls[c].id = NoId
                   THEN Trip(Sent(calls[c], "refetch", FindQuery(findParams, None)),
                             "findAndCount", ok)
                   ELSE Trip(calls[c], "findById", ok)
           out  == _getOrFind(store, call.id, findParams)
       IN calls' = [calls EXCEPT ![c] =
            IF ~ok THEN Rejected(Catch(Catch(Throw(call, EngineError))))
            ELSE IF out.error # "" THEN Rejected(Catch(Catch(Throw(call, out.error))))
            ELSE Resolved(call, select(call.params, out.data))]
  /\ UNCHANGED <<store, nextId, paginate, ncalls>>

\* ---------------------------------------------------------------- update
\* update(id, data, params): the synchronous part.  An array is rejected at
\* once, with the message string and without any engine call or catch.
CallUpdate(c) ==
  /\ CanCall(c)
  /\ \E id \in Ids, data \in {Object(o) : o \in ObjectSet} \cup {Array(<<[status |-> "x"]>>)} :
       calls' = [calls EXCEPT ![c] =
         IF isArray(data)
         THEN Rejected(Throw(NewCall("update", id, data, NoParams, "done"),
                             InvalidOperation))
         ELSE NewCall("update", id, data, NoParams, "fetch")]
  /\ ncalls' = ncalls + 1
  /\ UNCHANGED <<store, nextId, paginate>>

\* this.Model.findById(id)
UpdateFetch(c) ==
  /\ calls[c].op = "update"
  /\ calls[c].pc = "fetch"
  /\ \E ok \in BOOLEAN :
       LET call == Trip(calls[c], "findById", ok)
           out  == UpdateInstance(store, call.id)
       IN calls' = [calls EXCEPT ![c] =
            IF ~ok THEN Rejected(Catch(Throw(call, EngineError)))
            ELSE IF out.error # "" THEN Rejected(Catch(Throw(call, out.error)))
            ELSE [call EXCEPT !.pc = "write", !.found = out.data]]
  /\ UNCHANGED <<store, nextId, paginate, ncalls>>

\* instance.update(copy, options)
UpdateWrite(c) ==
  /\ calls[c].op = "update"
  /\ calls[c].pc = "write"
  /\ \E ok \in BOOLEAN :
       LET call     == Trip(calls[c], "instance.update", ok)
           instance == Get(call.found)
           copy     == UpdateCopy(instance, call.data.value)
       IN IF ok
          THEN /\ store' = InstanceUpdate(store, instance, copy)
               /\ calls' = [calls EXCEPT ![c] =
                    Resolved([call EXCEPT !.values = Append(@, copy),
                                          !.affected = {k \in DOMAIN store :
                                             store[k][idField] = instance[idField]}],
                             select(call.params,
                                    <<Assign(instance, omit(copy, idField))>>))]
          ELSE /\ calls' = [calls EXCEPT ![c] =
                    Rejected(Catch(Throw(call, EngineError)))]
               /\ UNCHANGED store
  /\ UNCHANGED <<nextId, paginate, ncalls>>

\* ---------------------------------------------------------------- remove
\* remove(id, params): the synchronous part.
RemoveCall(c, ids, windows, options) ==
  /\ CanCall(c)
  /\ \E id \in ids, preds \in PredSet, w \in windows, seq \in options :
       calls' = [calls EXCEPT ![c] =
         NewCall("remove", id, NoData,
                 [query |-> Query(preds, None, w[1], w[2], None), sequelize |-> seq],
                 "resolve")]
  /\ ncalls' = ncalls + 1
  /\ UNCHANGED <<store, nextId, paginate>>

CallRemove(c, options) == RemoveCall(c, Ids \cup {NoId}, WindowSet, options)

\* this._getOrFind(id, params); a failure passes the catch of _find or _get
\* and then remove's.
RemoveResolve(c) ==
  /\ calls[c].op = "remove"
  /\ calls[c].pc = "resolve"
  /\ \E ok \in BOOLEAN :
       LET call == IF calls[c].id = NoId
                   THEN Trip(Sent(calls[c], "resolve", FindQuery(calls[c].params, None)),
                             "findAndCount", ok)
                   ELSE Trip(calls[c], "findById", ok)
           out  == _getOrFind(store, call.id, call.params)
       IN calls' = [calls EXCEPT ![c] =
            IF ~ok THEN Rejected(Catch(Catch(Throw(call, EngineError))))
            ELSE IF out.error # "" THEN Rejected(Catch(Catch(Throw(call, out.error))))
            ELSE [call EXCEPT !.pc = "destroy", !.found = out.data]]
  /\ UNCHANGED <<store, nextId, paginate, ncalls>>

\* A destroy that rejects with NotFound when it deleted no row.
RemoveDestroyChecked(c) ==
  /\ calls[c].op = "remove"
  /\ calls[c].pc = "destroy"
  /\ \E ok \in BOOLEAN :
       LET call  == Trip(Sent(calls[c], "destroy",
                              MutationOptions(calls[c].id, calls[c].params)),
                         "destroy", ok)
           where == MutationOptions(call.id, call.params).where
       IN IF ok
          THEN /\ store' = ModelDestroy(store, where)
               /\ calls' = [calls EXCEPT ![c] =
                    IF Matching(store, where) = {}
                    THEN Rejected(Catch(Throw(call, NotFound)))
                    ELSE Resolved([call EXCEPT !.affected = Matching(store, where)],
                                  select(call.params, call.found))]
          ELSE /\ calls' = [calls EXCEPT ![c] =
                    Rejected(Catch(Throw(call, EngineError)))]
               /\ UNCHANGED store
  /\ UNCHANGED <<nextId, paginate, ncalls>>

\* this.Model.destroy(options).then(() => data)
RemoveDestroy(c) ==
  /\ calls[c].op = "remove"
  /\ calls[c].pc = "destroy"
  /\ \E ok \in BOOLEAN :
       LET call  == Trip(Sent(calls[c], "destroy",
                              MutationOptions(calls[c].id, calls[c].params)),
                         "destroy", ok)
           where == MutationOptions(call.id, call.params).where
       IN IF ok
          THEN /\ store' = ModelDestroy(store, where)
               /\ calls' = [calls EXCEPT ![c] =
                    Resolved([call EXCEPT !.affected = Matching(store, where)],
                             select(call.params, call.found))]
          ELSE /\ calls' = [calls EXCEPT ![c] =
                    Rejected(Catch(Throw(call, EngineError)))]
               /\ UNCHANGED store
  /\ UNCHANGED <<nextId, paginate, ncalls>>

\* --------------------------------------------------------- specifications
\* The engine round-trips of the calls in flight.
RoundTrip(c) ==
  \/ FindStep(c)
  \/ GetStep(c)
  \/ CreateStep(c)
  \/ PatchResolve(c) \/ PatchUpdate(c) \/ PatchRefetch(c)
  \/ UpdateFetch(c)  \/ UpdateWrite(c)
  \/ RemoveResolve(c) \/ RemoveDestroy(c)

\* A call made with params.sequelize drawn from `options`, or a round-trip.
Step(c, options) ==
  \/ CallFind(c, options)
  \/ CallGet(c)
  \/ CallCreate(c)
  \/ CallPatch(c, options)
  \/ CallUpdate(c)
  \/ CallRemove(c, options)
  \/ RoundTrip(c)

\* One caller, one call after another, without passthrough options: no
\* concurrent writers.
Next == Step("c1", {NoOptions})

Spec == Init /\ [][Next]_vars

\* The same caller, with passthrough options in params.sequelize.
NextOptions == Step("c1", SequelizeSet)

SpecOptions == Init /\ [][NextOptions]_vars

\* A full table under a service constructed without pagination or with
\* paginate: {default: PageDefault, max: PageMax}.
InitPaged ==
  /\ store \in [Ids -> [id : Ids, status : {"x", "y"}, tag : {"t"}]]
  /\ \A k \in DOMAIN store : store[k].id = k
  /\ nextId = MaxId + 1
  /\ paginate \in {None, Some([default |-> Some(PageDefault), max |-> Some(PageMax)])}
  /\ calls = [c \in Callers |-> IdleCall]
  /\ ncalls = 0

\* One caller: finds with and without params.paginate, bulk patches and
\* bulk removes.
NextPaged ==
  \/ FindCall("c1", PagedWindowSet, PaginateSet, {NoOptions})
  \/ FindStep("c1")
  \/ PatchCall("c1", {NoId}, {<<None, None>>}, {NoOptions})
  \/ PatchResolve("c1") \/ PatchUpdate("c1") \/ PatchRefetch("c1")
  \/ RemoveCall("c1", {NoId}, {<<None, None>>}, {NoOptions})
  \/ RemoveResolve("c1") \/ RemoveDestroy("c1")

SpecPaged == InitPaged /\ [][NextPaged]_vars

\* Two callers, one writing call each, their engine round-trips interleaved
\* in any order.
WriterStep(c) ==
  \/ calls[c].pc = "idle" /\ CallCreate(c)
  \/ calls[c].pc = "idle" /\ PatchCall(c, Ids \cup {NoId}, {<<None, None>>}, {NoOptions})
  \/ calls[c].pc = "idle" /\ CallUpdate(c)
  \/ calls[c].pc = "idle" /\ RemoveCall(c, Ids \cup {NoId}, {<<None, None>>}, {NoOptions})
  \/ CreateStep(c)
  \/ PatchResolve(c) \/ PatchUpdate(c) \/ PatchRefetch(c)
  \/ UpdateFetch(c)  \/ UpdateWrite(c)
  \/ RemoveResolve(c) \/ RemoveDestroy(c)

NextWriters == \E c \in Callers : WriterStep(c)

SpecWriters == Init /\ [][NextWriters]_vars

\* ------------------------------------------------------------ properties
\* params is {query: F} with F holding field predicates only.
OnlyPredicates(params) ==
  /\ params.query.limit = None
  /\ params.query.skip = None
  /\ params.query.select = None
  /\ params.query.idIn = None
  /\ params.sequelize = NoOptions

\* The rows of table st that satisfy the field predicates F.
Satisfying(st, F) == {k \in DOMAIN st : \A f \in DOMAIN F : st[k][f] = F[f]}

\* The rows of table st with identifier id.
WithId(st, id) == {k \in DOMAIN st : st[k][idField] = id}

IdsOf(rows) == {rows[i][idField] : i \in DOMAIN rows}

\* C1: with no concurrent writer, patch(null, data, {query: F}), F field
\* predicates only, resolves with exactly the records that satisfied F when
\* the call was made, each carrying data's values (the identifier, which the
\* service never assigns, aside), whether or not they still satisfy F.
C1_BulkPatchReturnsSnapshot ==
  \A c \in Callers :
    LET call == calls[c]
        data == call.data.value
        keys == Satisfying(call.before, call.params.query.preds)
    IN (/\ call.op = "patch"
        /\ call.id = NoId
        /\ call.settled = "resolved"
        /\ OnlyPredicates(call.params))
       => /\ Len(call.result) = Cardinality(keys)
          /\ IdsOf(call.result) = {call.before[k][idField] : k \in keys}
          /\ \A i \in DOMAIN call.result :
               \A f \in (DOMAIN data) \ {idField} : call.result[i][f] = data[f]

\* A bulk patch by status = y that set status to x resolved with records
\* that no longer satisfy its filter.
C1_Witness ==
  \E c \in Callers :
    /\ calls[c].op = "patch"
    /\ calls[c].id = NoId
    /\ calls[c].settled = "resolved"
    /\ OnlyPredicates(calls[c].params)
    /\ calls[c].params.query.preds = [status |-> "y"]
    /\ calls[c].data.value = [status |-> "x"]
    /\ Len(calls[c].result) >= 1
    /\ \A i \in DOMAIN calls[c].result : calls[c].result[i].status = "x"

\* C2: for every patch call without concurrent writers, the records in the
\* response are exactly the records the update changed.
C2_PatchResponseIsWhatChanged ==
  \A c \in Callers :
    LET call == calls[c]
    IN (call.op = "patch" /\ call.settled = "resolved")
       => IdsOf(call.result) = {call.before[k][idField] : k \in call.affected}

\* C3: for every remove call without concurrent writers, the response is
\* the pre-deletion snapshot of exactly the records the destroy deleted.
C3_RemoveResponseIsWhatWasDeleted ==
  \A c \in Callers :
    LET call == calls[c]
    IN (call.op = "remove" /\ call.settled = "resolved")
       => /\ \A i \in DOMAIN call.result :
               WithId(store, call.result[i][idField]) = {}
          /\ Range(call.result) = {call.before[k] : k \in call.affected}

\* C4: update(id, data) writes, for every field of the record, data's value
\* when data has the field and null otherwise, so the fields data does not
\* mention end up null; patch(id, data) leaves every field data does not
\* mention as it was and sets the others to data's values.
C4_UpdateReplacesPatchMerges ==
  \A c \in Callers :
    LET call == calls[c]
        data == call.data.value
        keys == WithId(call.before, call.id)
    IN /\ (call.op = "update" /\ call.settled = "resolved")
          => /\ keys # {}
             /\ \A k \in keys :
                  /\ call.values =
                       << [f \in DOMAIN call.before[k] |->
                             IF f \in DOMAIN data THEN data[f]
                             ELSE IF f = idField THEN NoId ELSE Null] >>
                  /\ k \in DOMAIN store
                  /\ \A f \in (DOMAIN store[k]) \ {idField} :
                       /\ store[k][f] = IF f \in DOMAIN data THEN data[f] ELSE Null
                       /\ call.result[1][f] = store[k][f]
       /\ (call.op = "patch" /\ call.id # NoId /\ call.settled = "resolved")
          => /\ keys # {}
             /\ \A k \in keys :
                  /\ k \in DOMAIN store
                  /\ \A f \in (DOMAIN store[k]) \ (DOMAIN data) :
                       store[k][f] = call.before[k][f]
                  /\ (OnlyPredicates(call.params) /\ call.params.query.preds = NoOptions)
                     => \A f \in (DOMAIN data) \ {idField} : store[k][f] = data[f]

\* update(id, {status: x}) resolved on a record that had a tag: the tag is
\* now null.
C4_Witness ==
  \E c \in Callers :
    /\ calls[c].op = "update"
    /\ calls[c].settled = "resolved"
    /\ calls[c].data.value = [status |-> "x"]
    /\ \E k \in WithId(calls[c].before, calls[c].id) :
         /\ calls[c].before[k].tag = "t"
         /\ store[k].tag = Null
         /\ store[k].status = "x"

\* C5: the service never assigns a record's identifier: every stored
\* record keeps the identifier it was created with, and the values patch and
\* update send to the engine never hold the identifier field.
C5_IdentifierNeverAssigned ==
  /\ \A k \in DOMAIN store : store[k][idField] = k
  /\ \A c \in Callers :
       \A i \in DOMAIN calls[c].values : idField \notin DOMAIN calls[c].values[i]

HasTrip(call, name) == \E i \in DOMAIN call.trips : call.trips[i].name = name

\* C6: remove(id) when no record has the identifier rejects, with NotFound
\* unless the fetch itself failed, issues no destroy and leaves the table as
\* it was; so does a remove(id) after one that deleted the record.
C6_RemoveMissingIsNotFound ==
  \A c \in Callers :
    LET call == calls[c]
    IN (/\ call.op = "remove"
        /\ call.id # NoId
        /\ WithId(call.before, call.id) = {}
        /\ call.pc # "resolve")
       => /\ call.settled = "rejected"
          /\ call.raised # EngineError => call.error = NotFound
          /\ ~HasTrip(call, "destroy")
          /\ store = call.before

\* remove(id) was rejected with NotFound for a record of the initial table:
\* an earlier remove had deleted it.
C6_Witness ==
  \E c \in Callers :
    /\ calls[c].op = "remove"
    /\ calls[c].id \in 1..(MaxId - 1)
    /\ calls[c].settled = "rejected"
    /\ calls[c].error = NotFound
    /\ WithId(store, calls[c].id) = {}

\* C7: update with an array rejects with the invalid-operation message,
\* issues no engine call and leaves the table as it was.
C7_UpdateArrayRejected ==
  \A c \in Callers :
    LET call == calls[c]
    IN (call.op = "update" /\ call.data.array)
       => /\ call.settled = "rejected"
          /\ call.error = InvalidOperation
          /\ call.trips = <<>>
          /\ store = call.before

\* update was called with an array and rejected.
C7_Witness ==
  \E c \in Callers :
    /\ calls[c].op = "update"
    /\ calls[c].data.array
    /\ calls[c].settled = "rejected"
    /\ calls[c].error = InvalidOperation

\* C8: update(id, data) when no record has the identifier rejects, with
\* NotFound unless the fetch itself failed, issues no write and leaves the
\* table as it was.
C8_UpdateMissingIsNotFound ==
  \A c \in Callers :
    LET call == calls[c]
    IN (/\ call.op = "update"
        /\ ~call.data.array
        /\ WithId(call.before, call.id) = {}
        /\ call.pc # "fetch")
       => /\ call.settled = "rejected"
          /\ call.raised # EngineError => call.error = NotFound
          /\ ~HasTrip(call, "instance.update")
          /\ store = call.before

\* update of a missing identifier rejected with NotFound after its fetch.
C8_Witness ==
  \E c \in Callers :
    /\ calls[c].op = "update"
    /\ WithId(calls[c].before, calls[c].id) = {}
    /\ calls[c].settled = "rejected"
    /\ calls[c].error = NotFound
    /\ Len(calls[c].trips) = 1

\* C9: every engine failure a method meets passes through the error
\* normalizer exactly once before the method rejects.
C9_NormalizedExactlyOnce ==
  \A c \in Callers :
    (calls[c].settled = "rejected" /\ calls[c].raised = EngineError)
    => calls[c].handled = 1

\* The round-trips a call of patch, update or remove issues when none fails.
RoundTrips(call) ==
  IF call.op = "patch"
  THEN IF call.id = NoId THEN <<"findAndCount", "update", "findAndCount">>
       ELSE <<"update", "findById">>
  ELSE IF call.op = "update" THEN <<"findById", "instance.update">>
  ELSE <<IF call.id = NoId THEN "findAndCount" ELSE "findById", "destroy">>

\* C10: a call of patch, update or remove issues each round-trip of its
\* sequence at most once and in order, and after a round-trip that failed it
\* issues no other and rejects.
C10_NoRetryFailStop ==
  \A c \in Callers :
    LET call == calls[c]
        n    == Len(call.trips)
    IN call.op \in {"patch", "update", "remove"}
       => /\ n <= Len(RoundTrips(call))
          /\ \A i \in 1..n :
               /\ call.trips[i].name = RoundTrips(call)[i]
               /\ i < n => call.trips[i].ok
          /\ (n > 0 /\ ~call.trips[n].ok) => call.settled = "rejected"

\* A bulk patch whose update failed after the identifiers were resolved: it
\* rejected without a re-fetch.
C10_Witness ==
  \E c \in Callers :
    /\ calls[c].op = "patch"
    /\ calls[c].id = NoId
    /\ calls[c].settled = "rejected"
    /\ Len(calls[c].trips) = 2
    /\ calls[c].trips[1].ok
    /\ ~calls[c].trips[2].ok

\* The where clause the service computes for an engine call of a call.
ComputedWhere(call, kind) ==
  [preds |-> call.params.query.preds,
   idIn  |-> IF kind \in {"update", "destroy"} /\ call.id # NoId
             THEN Some({call.id})
             ELSE None]

\* C11: every engine call that takes a where clause (findAndCount of find and
\* of the id resolution of patch and remove, update of patch, destroy of
\* remove) is sent the where clause the service computed from params.query,
\* with the identifier constraint when an id is given, whatever where clause
\* params.sequelize holds; every other passthrough option is sent with the
\* caller's value.
C11_WhereIsTheServices ==
  \A c \in Callers :
    \A i \in DOMAIN calls[c].sent :
      LET kind == calls[c].sent[i].kind
          q    == calls[c].sent[i].q
          own  == calls[c].params.sequelize
      IN /\ kind # "refetch" => q.where = ComputedWhere(calls[c], kind)
         /\ \A k \in (DOMAIN own) \ {"where"} : k \in DOMAIN q /\ q[k] = own[k]

\* The pagination configuration a call runs under: params.paginate when the
\* call supplies one, the service's otherwise.
InEffect(call) ==
  IF "paginate" \in DOMAIN call.params THEN call.params.paginate ELSE paginate

HasDefault(config) == IsSome(config) /\ IsSome(Get(config).default)

\* C12: under a pagination configuration with default D and max M, D <= M,
\* a find without $limit returns at most D rows and a find with $limit L at
\* most min(L, M) rows, and the page's total is the number of all records
\* that match, whatever the limit and skip.
C12_LimitIsCapped ==
  \A c \in Callers :
    LET call   == calls[c]
        config == InEffect(call)
    IN (/\ call.op = "find"
        /\ call.settled = "resolved"
        /\ HasDefault(config)
        /\ IsSome(Get(config).max)
        /\ Get(Get(config).default) <= Get(Get(config).max))
       => LET D == Get(Get(config).default)
              M == Get(Get(config).max)
              L == call.params.query.limit
          IN /\ ~IsSome(L) => Len(call.result) <= D
             /\ IsSome(L) => Len(call.result) <= Min(Get(L), M)
             /\ IsSome(call.page)
             /\ Get(call.page).total =
                  Cardinality(Satisfying(call.before, call.params.query.preds))

\* A find with $limit above the maximum returned PageMax rows of more that
\* match; a find without $limit would return PageDefault.
C12_Witness ==
  \E c \in Callers :
    /\ calls[c].op = "find"
    /\ calls[c].settled = "resolved"
    /\ "paginate" \notin DOMAIN calls[c].params
    /\ HasDefault(paginate)
    /\ calls[c].params.query.limit = Some(PageMax + 1)
    /\ Len(calls[c].result) = PageMax
    /\ Get(calls[c].page).total > PageMax

\* C13: find resolves with a Page (total, limit, skip, data) exactly when
\* the configuration in effect has a default page size, and with the bare
\* data otherwise; the configuration in effect is params.paginate when the
\* call supplies it and the construction-time one otherwise, which no call
\* changes.
C13_PageOrData ==
  \A c \in Callers :
    LET call == calls[c]
    IN (call.op = "find" /\ call.settled = "resolved")
       => (IsSome(call.page) <=> HasDefault(InEffect(call)))

C13_PageIffDefault == []C13_PageOrData /\ [][paginate' = paginate]_vars

\* On a service with a default page size a find called with paginate: false
\* resolved with the bare data.
C13_Witness ==
  \E c \in Callers :
    /\ calls[c].op = "find"
    /\ calls[c].settled = "resolved"
    /\ HasDefault(paginate)
    /\ "paginate" \in DOMAIN calls[c].params
    /\ calls[c].params.paginate = None
    /\ calls[c].page = None
    /\ Len(calls[c].result) > PageDefault

\* C14: get(id, params) with a $select list S resolves with the record
\* holding exactly the fields of S and the identifier field, S naming it or
\* not, each with the stored value: the projection get applies after _get's
\* leaves the result of one projection as it is.
C14_GetProjection ==
  \A c \in Callers :
    LET call == calls[c]
    IN (/\ call.op = "get"
        /\ call.settled = "resolved"
        /\ IsSome(call.params.query.select))
       => /\ Len(call.result) = 1
          /\ DOMAIN call.result[1] = Get(call.params.query.select) \cup {idField}
          /\ \E k \in WithId(call.before, call.id) :
               \A f \in DOMAIN call.result[1] : call.result[1][f] = call.before[k][f]

\* A get with $select: [status] resolved with the identifier and the status
\* of a record that has a third field.
C14_Witness ==
  \E c \in Callers :
    /\ calls[c].op = "get"
    /\ calls[c].settled = "resolved"
    /\ calls[c].params.query.select = Some({"status"})
    /\ DOMAIN calls[c].result[1] = {idField, "status"}
    /\ \E k \in WithId(store, calls[c].id) : "tag" \in DOMAIN store[k]

\* The identifiers of the records stored in table st.
StoredIds(st) == {st[k][idField] : k \in DOMAIN st}

\* C15: whatever other writers do between the three steps of
\* patch(null, data, {query: F}), the call resolves with records of the
\* identifier list its first step resolved and no others, and with every
\* record of that list still stored when the re-fetch runs; a record another
\* writer made match F after the first step is not among them.
C15_ResponseIsTheResolvedList ==
  [][\A c \in Callers :
       (/\ calls[c].op = "patch"
        /\ calls[c].id = NoId
        /\ calls[c].pc = "refetch"
        /\ OnlyPredicates(calls[c].params)
        /\ calls'[c].settled = "resolved")
       => /\ IdsOf(calls'[c].result) = Range(calls[c].idList) \cap StoredIds(store)
          /\ Len(calls'[c].result) = Cardinality(IdsOf(calls'[c].result))]_vars

\* A bulk patch resolved without a record that satisfies its filter, which
\* the other caller made match after the call was made.
C15_Witness ==
  \E c \in Callers :
    LET call == calls[c]
        F    == call.params.query.preds
    IN /\ call.op = "patch"
       /\ call.id = NoId
       /\ call.settled = "resolved"
       /\ OnlyPredicates(call.params)
       /\ F # NoOptions
       /\ call.idList # <<>>
       /\ \E k \in Satisfying(store, F) :
            /\ k \notin Satisfying(call.before, F)
            /\ store[k][idField] \notin IdsOf(call.result)

\* C16: patch(null, data, {query: F}) made when no record satisfies F
\* changes no record and resolves with the empty sequence: the re-fetch by
\* an in-set predicate over the empty identifier list matches nothing.  It
\* rejects only when an engine round-trip fails.
C16_BulkPatchOfNothing ==
  \A c \in Callers :
    LET call == calls[c]
    IN (/\ call.op = "patch"
        /\ call.id = NoId
        /\ OnlyPredicates(call.params)
        /\ Satisfying(call.before, call.params.query.preds) = {})
       => /\ store = call.before
          /\ call.settled = "resolved" => call.result = <<>>
          /\ call.settled = "rejected" => call.raised = EngineError

\* A bulk patch whose filter no record of a table that holds records
\* satisfied resolved, after its three round-trips, with nothing.
C16_Witness ==
  \E c \in Callers :
    /\ calls[c].op = "patch"
    /\ calls[c].id = NoId
    /\ OnlyPredicates(calls[c].params)
    /\ Satisfying(calls[c].before, calls[c].params.query.preds) = {}
    /\ DOMAIN calls[c].before # {}
    /\ calls[c].settled = "resolved"
    /\ calls[c].idList = <<>>
    /\ Len(calls[c].trips) = 3
    /\ calls[c].result = <<>>

\* C17: on a service constructed with a default page size, the records
\* patch(null, data, {query: F}) and remove(null, {query: F}), F without
\* $limit, resolve are all that satisfy F, not the first page of them: the
\* call writes every one of them and resolves with every one of them.
C17_BulkResolutionUnpaginated ==
  \A c \in Callers :
    LET call == calls[c]
        keys == Satisfying(call.before, call.params.query.preds)
    IN (/\ call.op \in {"patch", "remove"}
        /\ call.id = NoId
        /\ OnlyPredicates(call.params)
        /\ HasDefault(paginate)
        /\ call.settled = "resolved")
       => /\ Len(call.result) = Cardinality(keys)
          /\ IdsOf(call.result) = {call.before[k][idField] : k \in keys}
          /\ call.affected = keys
          /\ call.op = "remove" => DOMAIN store = (DOMAIN call.before) \ keys

\* On a service with a default page size a bulk patch resolved with more
\* records than a page holds.
C17_Witness ==
  \E c \in Callers :
    /\ calls[c].op = "patch"
    /\ calls[c].id = NoId
    /\ OnlyPredicates(calls[c].params)
    /\ HasDefault(paginate)
    /\ calls[c].settled = "resolved"
    /\ Len(calls[c].result) > Get(Get(paginate).default)
    /\ Len(calls[c].result) > Get(Get(paginate).max)

\* C18: patch(id, data, params) made when no record has the identifier id
\* leaves every stored record as it was and never resolves: it rejects with
\* NotFound (or, when a round-trip fails, with the engine's error), whatever
\* predicates params.query carries.
C18_PatchMissingIsNotFound ==
  \A c \in Callers :
    LET call == calls[c]
    IN (/\ call.op = "patch"
        /\ call.id # NoId
        /\ WithId(call.before, call.id) = {})
       => /\ store = call.before
          /\ call.settled # "resolved"
          /\ (call.settled = "rejected" /\ call.raised # EngineError)
               => call.error = NotFound
          /\ call.pc = "done" => call.settled = "rejected"

\* A patch by an identifier no record has, with a predicate in its query,
\* rejected with NotFound after the update and the fetch.
C18_Witness ==
  \E c \in Callers :
    /\ calls[c].op = "patch"
    /\ calls[c].id # NoId
    /\ WithId(calls[c].before, calls[c].id) = {}
    /\ calls[c].params.query.preds # NoOptions
    /\ calls[c].settled = "rejected"
    /\ calls[c].error = NotFound
    /\ Len(calls[c].trips) = 2
    /\ DOMAIN store # {}

\* The records a settled create inserted.
Inserted(call) ==
  IF call.op = "create" /\ call.settled = "resolved"
  THEN IF call.data.array THEN Len(call.data.value) ELSE 1
  ELSE 0

\* C19: patch(id, ...), update(id, ...) and remove(id, ...) with an id leave
\* every record with another identifier stored and unchanged, and the number
\* of stored records changes only by the records a remove deleted and the
\* records a create inserted.
C19_OnlyTheTarget ==
  \A c \in Callers :
    LET call == calls[c]
    IN /\ (call.op \in {"patch", "update", "remove"} /\ call.id # NoId)
            => \A k \in DOMAIN call.before :
                 call.before[k][idField] # call.id
                   => k \in DOMAIN store /\ store[k] = call.before[k]
       /\ call.op # "none"
            => Cardinality(DOMAIN store) =
                 Cardinality(DOMAIN call.before) + Inserted(call)
                 - (IF call.op = "remove" THEN Cardinality(call.affected) ELSE 0)

\* A patch by identifier changed its record while another record, which
\* satisfies the same query, stayed as it was.
C19_Witness ==
  \E c \in Callers :
    /\ calls[c].op = "patch"
    /\ calls[c].id # NoId
    /\ calls[c].settled = "resolved"
    /\ store # calls[c].before
    /\ \E k \in DOMAIN store :
         /\ store[k][idField] # calls[c].id
         /\ \A f \in DOMAIN calls[c].params.query.preds :
              store[k][f] = calls[c].params.query.preds[f]
         /\ \E f \in DOMAIN calls[c].data.value :
              f # idField /\ store[k][f] # calls[c].data.value[f]

\* Callers c and d both called remove(id), without a query, for a record
\* with the same identifier that was stored when each call was made, and no
\* round-trip of either failed.
SameRemove(c, d) ==
  /\ c # d
  /\ calls[c].op = "remove" /\ calls[d].op = "remove"
  /\ calls[c].id # NoId /\ calls[d].id = calls[c].id
  /\ calls[c].params = NoParams /\ calls[d].params = NoParams
  /\ WithId(calls[c].before, calls[c].id) # {}
  /\ WithId(calls[d].before, calls[d].id) # {}
  /\ calls[c].raised # EngineError /\ calls[d].raised # EngineError

\* The call resolved with the record of its identifier.
ResolvedWithRecord(call) ==
  /\ call.settled = "resolved"
  /\ Len(call.result) = 1
  /\ call.result[1][idField] = call.id

\* C20: of two interleaved remove(id) calls for the same stored record, at
\* most one resolves with the record and the other rejects with NotFound:
\* the record is not reported as deleted to both callers.
C20_OneRemoveReports ==
  \A c, d \in Callers :
    (SameRemove(c, d) /\ calls[c].pc = "done" /\ calls[d].pc = "done")
      => \/ ResolvedWithRecord(calls[c]) /\ calls[d].error = NotFound
         \/ ResolvedWithRecord(calls[d]) /\ calls[c].error = NotFound

\* C20, amended: of two interleaved remove(id) calls for the same stored
\* record, at most one destroy deletes the record, and each call resolves
\* with the record exactly when its own fetch found it, whether or not its
\* destroy deleted anything; it rejects with NotFound exactly when its fetch
\* ran after the other call's destroy.  At least one call resolves with the
\* record, and both do when both fetches ran before either destroy.
C20_RemoveReportsWhatItFetched ==
  \A c, d \in Callers :
    SameRemove(c, d)
      => /\ ~(calls[c].affected # {} /\ calls[d].affected # {})
         /\ calls[c].pc = "done"
              => /\ calls[c].found # <<>> <=> ResolvedWithRecord(calls[c])
                 /\ calls[c].found = <<>>
                      <=> (calls[c].settled = "rejected" /\ calls[c].error = NotFound)
         /\ (calls[c].settled = "rejected" /\ calls[c].error = NotFound)
              => calls[d].affected # {}
         /\ (calls[c].pc = "done" /\ calls[d].pc = "done")
              => ResolvedWithRecord(calls[c]) \/ ResolvedWithRecord(calls[d])

\* Both calls resolved with the same record, which one destroy deleted.
C20_Witness ==
  \E c, d \in Callers :
    /\ SameRemove(c, d)
    /\ ResolvedWithRecord(calls[c])
    /\ ResolvedWithRecord(calls[d])
    /\ calls[c].result = calls[d].result
    /\ calls[c].affected # {}
    /\ calls[d].affected = {}
    /\ WithId(store, calls[c].id) = {}

====
